---- MODULE Spec2Model ----
(***************************************************************************)
(* Share-allocation engine of api-sky-solutions: the Business,             *)
(* ShareRequest and Investment collections and the route handlers that     *)
(* read and write them.  Every handler is an async function; each `await`  *)
(* on a store read or write is one step of its call, so calls interleave   *)
(* exactly where the event loop can switch between them.                   *)
(***************************************************************************)
EXTENDS Integers, Sequences, FiniteSets, TLC

\* ---------------------------------------------------------------- bounds
MaxBusinesses == 1          \* public listings ever created
MaxShares     == 2          \* largest total_shares / requested_shares drawn
MaxShareValue == 2          \* share_value is drawn from 1..MaxShareValue
MaxRequests   == 2          \* ShareRequest documents ever created
NumInvestors  == 2          \* investor accounts
NumCalls      == 2          \* handler invocations in flight at once
MaxDrift      == 2          \* remaining_shares is kept within -MaxDrift..MaxShares+MaxDrift
MaxServed     == 2          \* approve, reject and admin-update requests served
MaxExpenses   == 3          \* Expense documents ever created
MaxDays       == 2          \* days the clock advances past Epoch
NumExpenseCalls == 1        \* expense-route handler invocations in flight at once
NumSweeps     == 2          \* processRecursiveExpenses runs in flight at once
MaxEdits      == 2          \* paid, update and toggle-active requests served
MaxOrigins    == 1          \* expenses created through POST /expenses

Calls      == 1..NumCalls
Investors  == 1..NumInvestors
Reasons    == {"r1", "r2"}

VARIABLES
    businesses,     \* Seq of Business documents (the _id is the index)
    shareRequests,  \* Seq of ShareRequest documents (the _id is the index)
    investments,    \* Seq of Investment documents
    pc,             \* pc[c]: the await the call c is suspended at ("idle": no handler)
    loc,            \* loc[c]: the locals of the handler running in c
    served,         \* number of approve, reject and admin-update requests accepted so far
    approvedCount,  \* history: approvedCount[r] = share count of the approval last stored for r
    investmentReq,  \* history: investmentReq[i] = the request whose approval created investments[i]
    decrementedFor, \* history: the requests for whose approval a business.save() stored a decrement
    expenses,       \* Seq of Expense documents (the _id is the index)
    now,            \* the wall clock, new Date()
    epc,            \* epc[c]: the await the expense-route call c is suspended at
    eloc,           \* eloc[c]: the locals of the expense-route handler running in c
    sweep,          \* sweep[s]: the locals of the processRecursiveExpenses run s
    edits,          \* number of paid, update and toggle-active requests accepted so far
    producedBy,     \* history: producedBy[e] = the expense and the path that created expenses[e]
    lastSweep,      \* history: the sweeps that ran back to back since the last other operation
    sweepBase,      \* history: the Expense collection when the first of those sweeps started
    calc            \* one call of calculateNextDueDate: its arguments and what each copy returned

shareVars == <<businesses, shareRequests, investments, pc, loc, served,
               approvedCount, investmentReq, decrementedFor>>
expenseVars == <<expenses, now, epc, eloc, sweep, edits, producedBy, lastSweep, sweepBase>>
vars == <<businesses, shareRequests, investments, pc, loc, served,
          approvedCount, investmentReq, decrementedFor,
          expenses, now, epc, eloc, sweep, edits, producedBy, lastSweep, sweepBase, calc>>
store == <<businesses, shareRequests, investments>>
hist == <<approvedCount, investmentReq, decrementedFor>>

\* ------------------------------------------------------------ request body
\* req.body.approved_shares: absent (undefined) or a number.
Undefined == [given |-> FALSE, val |-> 0]
Num(n)    == [given |-> TRUE, val |-> n]
ApprovedInputs == {Undefined} \cup {Num(n) : n \in -1..MaxShares}

\* JavaScript truthiness of a number-or-undefined: undefined and 0 are falsy.
Truthy(a) == a.given /\ a.val # 0

\* ------------------------------------------------------------------ locals
NoLoc == [op |-> "none", r |-> 0, b |-> 0, inv |-> 0, n |-> 0, given |-> TRUE,
          rem |-> 0, sv |-> 0, seen |-> "none", reason |-> "none"]

\* ------------------------------------------------------------ dates (Date)
\* A Date as the fields getFullYear(), getMonth() (0..11) and getDate() (1..31).
Date(y, m, d) == [year |-> y, month |-> m, date |-> d]
NoDate == Date(0, 0, 0)

IsLeapYear(y) == (y % 4 = 0 /\ y % 100 # 0) \/ y % 400 = 0
DaysInMonth(y, m) ==
    IF m = 1 THEN (IF IsLeapYear(y) THEN 29 ELSE 28)
    ELSE IF m \in {3, 5, 8, 10} THEN 30 ELSE 31

\* What the Date setters do with a field that is out of range: months carry
\* into the year, days carry into the month (31 February 2024 is 2 March 2024).
RECURSIVE Normalize(_)
Normalize(d) ==
    IF d.month > 11 \/ d.month < 0
      THEN Normalize([d EXCEPT !.year = @ + (d.month \div 12), !.month = d.month % 12])
    ELSE IF d.date > DaysInMonth(d.year, d.month)
      THEN Normalize([d EXCEPT !.date = @ - DaysInMonth(d.year, d.month), !.month = @ + 1])
    ELSE IF d.date < 1
      THEN LET p == Normalize([d EXCEPT !.month = @ - 1, !.date = 1])
           IN Normalize([p EXCEPT !.date = d.date + DaysInMonth(p.year, p.month)])
    ELSE d

\* The order of two Dates.
DateKey(d) == (d.year * 12 + d.month) * 31 + d.date
Before(d1, d2) == DateKey(d1) < DateKey(d2)

\* The clock starts on 30 January 2024 and runs for MaxDays days.
Epoch == Date(2024, 0, 30)
LastDay == Normalize([Epoch EXCEPT !.date = @ + MaxDays])

\* calculateNextDueDate of the expense routes.
calculateNextDueDate(currentDueDate, frequency, frequencyValue) ==
    LET nextDate == currentDueDate IN
    CASE frequency = "days" ->
           Normalize([nextDate EXCEPT !.date = @ + (IF Truthy(frequencyValue)
                                                     THEN frequencyValue.val ELSE 1)])
      [] frequency = "month"   -> Normalize([nextDate EXCEPT !.month = @ + 1])
      [] frequency = "quarter" -> Normalize([nextDate EXCEPT !.month = @ + 3])
      [] frequency = "half"    -> Normalize([nextDate EXCEPT !.month = @ + 6])
      [] frequency = "year"    -> Normalize([nextDate EXCEPT !.year = @ + 1])
      [] OTHER                 -> Normalize([nextDate EXCEPT !.month = @ + 1])

\* A scheduler copy that has drifted from the routes' copy: it advances a days
\* expense by one day whatever its frequency_value.
calculateNextDueDateDaily(currentDueDate, frequency, frequencyValue) ==
    LET nextDate == currentDueDate IN
    CASE frequency = "days"    -> Normalize([nextDate EXCEPT !.date = @ + 1])
      [] frequency = "month"   -> Normalize([nextDate EXCEPT !.month = @ + 1])
      [] frequency = "quarter" -> Normalize([nextDate EXCEPT !.month = @ + 3])
      [] frequency = "half"    -> Normalize([nextDate EXCEPT !.month = @ + 6])
      [] frequency = "year"    -> Normalize([nextDate EXCEPT !.year = @ + 1])
      [] OTHER                 -> Normalize([nextDate EXCEPT !.month = @ + 1])

\* calculateNextDueDate of the scheduler (its own copy of the function).
calculateNextDueDateScheduler(currentDueDate, frequency, frequencyValue) ==
    LET nextDate == currentDueDate IN
    CASE frequency = "days" ->
           Normalize([nextDate EXCEPT !.date = @ + (IF Truthy(frequencyValue)
                                                     THEN frequencyValue.val ELSE 1)])
      [] frequency = "month"   -> Normalize([nextDate EXCEPT !.month = @ + 1])
      [] frequency = "quarter" -> Normalize([nextDate EXCEPT !.month = @ + 3])
      [] frequency = "half"    -> Normalize([nextDate EXCEPT !.month = @ + 6])
      [] frequency = "year"    -> Normalize([nextDate EXCEPT !.year = @ + 1])
      [] OTHER                 -> Normalize([nextDate EXCEPT !.month = @ + 1])

\* ---------------------------------------------------------------- expenses
ExpenseCalls == 1..NumExpenseCalls
Sweeps == 1..NumSweeps

\* An Expense document; "none", NoDate, Undefined and 0 stand for an unset field.
NoExpense ==
    [name |-> "none", category |-> "none", amount |-> 0, priority |-> "none",
     type |-> "none", status |-> "none", due_date |-> NoDate, paid_date |-> NoDate,
     payment_method |-> "none", frequency |-> "none", frequency_value |-> Undefined,
     parent_id |-> 0, is_active |-> TRUE]

\* req.body of PUT /:expenseId; "undefined" and NoDate stand for an absent field.
NoBody == [status |-> "undefined", is_active |-> "undefined", due_date |-> NoDate,
           frequency |-> "undefined", frequency_value |-> Undefined]

NoELoc == [op |-> "none", e |-> 0, expense |-> NoExpense, body |-> NoBody,
           paid_date |-> NoDate, payment_method |-> "none"]

NoSweep == [pc |-> "idle", now |-> NoDate, todo |-> << >>]

\* No call of calculateNextDueDate is being followed.
NoCalc == [currentDueDate |-> NoDate, frequency |-> "none", frequencyValue |-> Undefined,
           routes |-> NoDate, scheduler |-> NoDate]

Init ==
    /\ businesses = << >>
    /\ shareRequests = << >>
    /\ investments = << >>
    /\ pc = [c \in Calls |-> "idle"]
    /\ loc = [c \in Calls |-> NoLoc]
    /\ served = 0
    /\ approvedCount = [r \in 1..MaxRequests |-> 0]
    /\ investmentReq = << >>
    /\ decrementedFor = {}
    /\ expenses = << >>
    /\ now = Epoch
    /\ epc = [c \in ExpenseCalls |-> "idle"]
    /\ eloc = [c \in ExpenseCalls |-> NoELoc]
    /\ sweep = [s \in Sweeps |-> NoSweep]
    /\ edits = 0
    /\ producedBy = << >>
    /\ lastSweep = "none"
    /\ sweepBase = << >>
    /\ calc = NoCalc

\* The handler in c sends its response and returns: the call slot is free.
Finish(c) ==
    /\ pc' = [pc EXCEPT ![c] = "idle"]
    /\ loc' = [loc EXCEPT ![c] = NoLoc]
    /\ UNCHANGED <<expenseVars, calc>>

\* A new request is served in the first free call slot (the slots are anonymous).
Free(c) == pc[c] = "idle" /\ \A d \in Calls : d < c => pc[d] # "idle"

\* The server accepts one more request.
Serve == served < MaxServed /\ served' = served + 1

\* The handler in c suspends at the next await.
Goto(c, label, l) ==
    /\ pc' = [pc EXCEPT ![c] = label]
    /\ loc' = [loc EXCEPT ![c] = l]
    /\ UNCHANGED <<expenseVars, calc>>

\* -------------------------------------------------- admin: public listings
\* POST /admin/businesses/public (and POST /admin/businesses/:id/approve, which
\* creates the public listing with the same fields): remaining_shares starts
\* at total_shares, minimum_shares_per_request defaults to 1.
CreatePublicBusiness(c, total, sv, min) ==
    /\ Free(c)
    /\ Len(businesses) < MaxBusinesses
    /\ total > 0 /\ sv > 0
    /\ businesses' = Append(businesses,
            [total_shares |-> total, remaining_shares |-> total,
             share_value |-> sv, minimum_shares_per_request |-> min])
    /\ Finish(c)    \* 201 created
    /\ UNCHANGED served
    /\ UNCHANGED <<shareRequests, investments, hist>>

\* ------------------------------------------------------- POST /shares/:id/request
\* validateShareRequest: requested_shares must be a positive integer.
ValidRequestedShares(n) == n > 0

\* Investor accounts are numbered in the order of their first request.
KnownInvestors ==
    {shareRequests[r].investor_id : r \in 1..Len(shareRequests)}
        \cup {loc[c].inv : c \in {d \in Calls : loc[d].op \in {"request", "requestInvestor"}}}
NextInvestor(inv) == \A i \in Investors : i < inv => i \in KnownInvestors

\* Request handlers suspended before their ShareRequest.create.
PendingCreates == Cardinality({c \in Calls : pc[c] \in {"req_create", "inv_existing", "inv_create"}})

\* Business.findById and the checks up to ShareRequest.create.
RequestFindBusiness(c, inv, b, n) ==
    /\ Free(c)
    /\ NextInvestor(inv)
    /\ UNCHANGED served
    /\ Len(shareRequests) + PendingCreates < MaxRequests
    /\ UNCHANGED <<store, hist>>
    /\ IF ~ValidRequestedShares(n)
         THEN Finish(c)    \* 400 invalid
       ELSE IF b > Len(businesses)
         THEN Finish(c)    \* 404 notFound
       ELSE IF n > businesses[b].remaining_shares
         THEN Finish(c)    \* 400 capacity
       ELSE Goto(c, "req_create",
                 [NoLoc EXCEPT !.op = "request", !.b = b, !.inv = inv, !.n = n,
                               !.rem = businesses[b].remaining_shares,
                               !.sv = businesses[b].share_value])

\* The ShareRequest document both request handlers create: status defaults to
\* pending, share_value and total_amount are the values computed by the handler.
NewShareRequest(l) ==
    [investor_id |-> l.inv, business_id |-> l.b, requested_shares |-> l.n,
     share_value |-> l.sv, total_amount |-> l.n * l.sv,
     status |-> "pending", rejection_reason |-> "none"]

RequestCreate(c, ok) ==
    /\ pc[c] = "req_create"
    /\ UNCHANGED served
    /\ UNCHANGED <<businesses, investments, hist>>
    /\ IF ok
         THEN /\ shareRequests' = Append(shareRequests, NewShareRequest(loc[c]))
              /\ Finish(c)    \* 201 created
         ELSE /\ UNCHANGED shareRequests
              /\ Finish(c)    \* 500 error

\* ------------------------------------------------ PUT /shares/:id/approve
\* const finalApprovedShares = approved_shares || shareRequest.requested_shares
FinalApprovedShares(a, requested) == IF Truthy(a) THEN a.val ELSE requested

\* remaining_shares values the model follows (the handlers themselves set no bound).
InDrift(v) == v >= -MaxDrift /\ v <= MaxShares + MaxDrift

\* ShareRequest.findById, the status check and the approved <= requested check.
ApproveFindRequest(c, r, a) ==
    /\ Free(c)
    /\ Serve
    /\ UNCHANGED <<store, hist>>
    /\ IF r > Len(shareRequests)
         THEN Finish(c)    \* 404 notFound
       ELSE IF shareRequests[r].status # "pending"
         THEN Finish(c)    \* 400 processed
       ELSE LET n == FinalApprovedShares(a, shareRequests[r].requested_shares) IN
            IF n > shareRequests[r].requested_shares
              THEN Finish(c)    \* 400 exceedsRequested
              ELSE Goto(c, "apv_business",
                        [NoLoc EXCEPT !.op = "approve", !.r = r, !.n = n,
                                      !.b = shareRequests[r].business_id,
                                      !.inv = shareRequests[r].investor_id,
                                      !.sv = shareRequests[r].share_value,
                                      !.seen = shareRequests[r].status])

\* Business.findById and the capacity check.
ApproveFindBusiness(c) ==
    /\ pc[c] = "apv_business"
    /\ UNCHANGED served
    /\ UNCHANGED <<store, hist>>
    /\ LET l == loc[c] IN
       IF l.n > businesses[l.b].remaining_shares
         THEN Finish(c)    \* 400 capacity
         ELSE Goto(c, "apv_saveRequest", [l EXCEPT !.rem = businesses[l.b].remaining_shares])

\* An approval that overwrites requested_shares with the approved count.
ApproveSaveRequestTruncating(c, ok) ==
    /\ pc[c] = "apv_saveRequest"
    /\ UNCHANGED served
    /\ UNCHANGED <<businesses, investments, investmentReq, decrementedFor>>
    /\ LET l == loc[c] IN
       IF ok
         THEN /\ shareRequests' = [shareRequests EXCEPT ![l.r].status = "approved",
                                                        ![l.r].requested_shares = l.n]
              /\ approvedCount' = [approvedCount EXCEPT ![l.r] = l.n]
              /\ Goto(c, "apv_saveBusiness", l)
         ELSE /\ UNCHANGED <<shareRequests, approvedCount>>
              /\ Finish(c)    \* 500 error

\* shareRequest.status = "approved"; await shareRequest.save()
ApproveSaveRequest(c, ok) ==
    /\ pc[c] = "apv_saveRequest"
    /\ UNCHANGED served
    /\ UNCHANGED <<businesses, investments, investmentReq, decrementedFor>>
    /\ LET l == loc[c] IN
       IF ok
         THEN /\ shareRequests' = [shareRequests EXCEPT ![l.r].status = "approved"]
              /\ approvedCount' = [approvedCount EXCEPT ![l.r] = l.n]
              /\ Goto(c, "apv_saveBusiness", l)
         ELSE /\ UNCHANGED <<shareRequests, approvedCount>>
              /\ Finish(c)    \* 500 error

\* The value business.save() stores: the document read earlier, minus the shares.
DecrementedRemaining(l) == l.rem - l.n

\* business.remaining_shares -= finalApprovedShares; await business.save()
ApproveSaveBusiness(c, ok) ==
    /\ pc[c] = "apv_saveBusiness"
    /\ UNCHANGED served
    /\ UNCHANGED <<shareRequests, investments, approvedCount, investmentReq>>
    /\ LET l == loc[c] IN
       IF ok
         THEN /\ InDrift(DecrementedRemaining(l))
              /\ businesses' = [businesses EXCEPT ![l.b].remaining_shares = DecrementedRemaining(l)]
              /\ decrementedFor' = decrementedFor \cup {l.r}
              /\ Goto(c, "apv_investment", l)
         ELSE /\ UNCHANGED <<businesses, decrementedFor>>
              /\ Finish(c)    \* 500 error

\* const investmentAmount = finalApprovedShares * shareRequest.share_value
InvestmentAmount(l) == l.n * l.sv

\* Investment.create: the schema's min: 0 on amount rejects a negative amount.
ApproveCreateInvestment(c, ok) ==
    /\ pc[c] = "apv_investment"
    /\ UNCHANGED served
    /\ UNCHANGED <<businesses, shareRequests, approvedCount, decrementedFor>>
    /\ LET l == loc[c] IN
       IF ok /\ InvestmentAmount(l) >= 0
         THEN /\ investments' = Append(investments,
                    [investor_id |-> l.inv, business_id |-> l.b,
                     amount |-> InvestmentAmount(l), status |-> "approved"])
              /\ investmentReq' = Append(investmentReq, l.r)
              /\ Finish(c)    \* 200 approved
         ELSE /\ UNCHANGED <<investments, investmentReq>>
              /\ Finish(c)    \* 500 error

\* ------------------------------------------------- PUT /shares/:id/reject
RejectFindRequest(c, r, reason) ==
    /\ Free(c)
    /\ Serve
    /\ UNCHANGED <<store, hist>>
    /\ IF r > Len(shareRequests)
         THEN Finish(c)    \* 404 notFound
         ELSE Goto(c, "rej_save",
                   [NoLoc EXCEPT !.op = "reject", !.r = r, !.reason = reason,
                                 !.b = shareRequests[r].business_id,
                                 !.seen = shareRequests[r].status])

\* A reject that hands a request's shares back to the listing.
RejectSaveRestoring(c, ok) ==
    /\ pc[c] = "rej_save"
    /\ UNCHANGED served
    /\ UNCHANGED <<investments, hist>>
    /\ LET l == loc[c] IN
       IF ok
         THEN /\ shareRequests' = [shareRequests EXCEPT ![l.r].status = "rejected",
                                                        ![l.r].rejection_reason = l.reason]
              /\ businesses' = [businesses EXCEPT ![l.b].remaining_shares =
                                    @ + shareRequests[l.r].requested_shares]
              /\ Finish(c)
         ELSE /\ UNCHANGED <<shareRequests, businesses>>
              /\ Finish(c)

\* shareRequest.status = "rejected"; rejection_reason = reason; save()
RejectSave(c, ok) ==
    /\ pc[c] = "rej_save"
    /\ UNCHANGED served
    /\ UNCHANGED <<businesses, investments, hist>>
    /\ LET l == loc[c] IN
       IF ok
         THEN /\ shareRequests' = [shareRequests EXCEPT ![l.r].status = "rejected",
                                                        ![l.r].rejection_reason = l.reason]
              /\ Finish(c)    \* 200 rejected
         ELSE /\ UNCHANGED shareRequests
              /\ Finish(c)    \* 500 error

\* ---------------------------------- PUT /shares/:id/approve (older variant)
\* The older copy of the shares router: no status check, no default for
\* approved_shares, no capacity check, no Investment.
OldApproveFindRequest(c, r, a) ==
    /\ Free(c)
    /\ Serve
    /\ UNCHANGED <<store, hist>>
    /\ IF r > Len(shareRequests)
         THEN Finish(c)    \* 404 notFound
       ELSE IF a.given /\ a.val > shareRequests[r].requested_shares
         THEN Finish(c)    \* 400 exceedsRequested
       ELSE Goto(c, "old_business",
                 [NoLoc EXCEPT !.op = "approveOld", !.r = r, !.n = a.val, !.given = a.given,
                               !.b = shareRequests[r].business_id,
                               !.inv = shareRequests[r].investor_id,
                               !.sv = shareRequests[r].share_value,
                               !.seen = shareRequests[r].status])

OldApproveFindBusiness(c) ==
    /\ pc[c] = "old_business"
    /\ UNCHANGED served
    /\ UNCHANGED <<store, hist>>
    /\ Goto(c, "old_saveRequest", [loc[c] EXCEPT !.rem = businesses[loc[c].b].remaining_shares])

OldApproveSaveRequest(c, ok) ==
    /\ pc[c] = "old_saveRequest"
    /\ UNCHANGED served
    /\ UNCHANGED <<businesses, investments, investmentReq, decrementedFor>>
    /\ LET l == loc[c] IN
       IF ok
         THEN /\ shareRequests' = [shareRequests EXCEPT ![l.r].status = "approved"]
              /\ approvedCount' = [approvedCount EXCEPT ![l.r] = l.n]
              /\ Goto(c, "old_saveBusiness", l)
         ELSE /\ UNCHANGED <<shareRequests, approvedCount>>
              /\ Finish(c)    \* 500 error

\* business.remaining_shares -= approved_shares; save().  With approved_shares
\* undefined the result is NaN, which the Number cast refuses: save() throws.
OldApproveSaveBusiness(c, ok) ==
    /\ pc[c] = "old_saveBusiness"
    /\ UNCHANGED served
    /\ UNCHANGED <<shareRequests, investments, approvedCount, investmentReq>>
    /\ LET l == loc[c] IN
       IF ok /\ l.given
         THEN /\ InDrift(DecrementedRemaining(l))
              /\ businesses' = [businesses EXCEPT ![l.b].remaining_shares = DecrementedRemaining(l)]
              /\ decrementedFor' = decrementedFor \cup {l.r}
              /\ Finish(c)    \* 200 approved
         ELSE /\ UNCHANGED <<businesses, decrementedFor>>
              /\ Finish(c)    \* 500 error

\* ------------------------------------------ POST /investor/businesses/:id/request-shares
\* Business.findOne({status: active, type: public}) and the minimum check.
InvestorFindBusiness(c, inv, b, n) ==
    /\ Free(c)
    /\ NextInvestor(inv)
    /\ UNCHANGED served
    /\ Len(shareRequests) + PendingCreates < MaxRequests
    /\ UNCHANGED <<store, hist>>
    /\ IF b > Len(businesses)
         THEN Finish(c)    \* 404 notFound
       ELSE IF businesses[b].minimum_shares_per_request # 0
               /\ n < businesses[b].minimum_shares_per_request
         THEN Finish(c)    \* 400 minimum
       ELSE Goto(c, "inv_existing",
                 [NoLoc EXCEPT !.op = "requestInvestor", !.b = b, !.inv = inv, !.n = n,
                               !.rem = businesses[b].remaining_shares,
                               !.sv = businesses[b].share_value])

\* ShareRequest.findOne({investor_id, business_id, status: "pending"})
ExistingRequest(inv, b) ==
    \E r \in 1..Len(shareRequests) :
        /\ shareRequests[r].investor_id = inv
        /\ shareRequests[r].business_id = b
        /\ shareRequests[r].status = "pending"

InvestorFindExisting(c) ==
    /\ pc[c] = "inv_existing"
    /\ UNCHANGED served
    /\ UNCHANGED <<store, hist>>
    /\ IF ExistingRequest(loc[c].inv, loc[c].b)
         THEN Finish(c)    \* 400 duplicate
         ELSE Goto(c, "inv_create", loc[c])

\* ShareRequest.create: the schema's min: 1 on requested_shares refuses n < 1.
InvestorCreate(c, ok) ==
    /\ pc[c] = "inv_create"
    /\ UNCHANGED served
    /\ UNCHANGED <<businesses, investments, hist>>
    /\ IF ok /\ loc[c].n >= 1
         THEN /\ shareRequests' = Append(shareRequests, NewShareRequest(loc[c]))
              /\ Finish(c)    \* 201 created
         ELSE /\ UNCHANGED shareRequests
              /\ Finish(c)    \* 500 error

\* ------------------------------------------- PUT /admin/businesses/public/:id
\* Form fields arrive as strings: a field is applied when it is a non-empty
\* string, "0" included.  total_shares is assigned before the ratio is taken.
FormInputs(lo, hi) == {Undefined} \cup {Num(n) : n \in lo..hi}

\* Math.floor(business.remaining_shares * ratio), ratio = newTotalShares / business.total_shares
RescaledRemaining(remaining, newTotalShares, totalShares) ==
    (remaining * newTotalShares) \div totalShares

UpdatePublicBusiness(c, b, t, sv) ==
    /\ Free(c)
    /\ Serve
    /\ b <= Len(businesses)
    /\ t.given \/ sv.given
    /\ LET old == businesses[b]
           withTotal ==
             IF ~t.given THEN old
             ELSE LET assigned == [old EXCEPT !.total_shares = t.val] IN
                  IF assigned.total_shares > 0
                    THEN [assigned EXCEPT !.remaining_shares =
                            RescaledRemaining(old.remaining_shares, t.val, assigned.total_shares)]
                    ELSE [assigned EXCEPT !.remaining_shares = t.val]
           withValue ==
             IF sv.given THEN [withTotal EXCEPT !.share_value = sv.val] ELSE withTotal
       IN businesses' = [businesses EXCEPT ![b] = withValue]
    /\ Finish(c)    \* 200 updated
    /\ UNCHANGED <<shareRequests, investments, hist>>

\* ------------------------------------------------- PUT /admin/businesses/:id
\* The general update route: total_shares is stored as given, remaining_shares
\* is not touched.
UpdateBusiness(c, b, t) ==
    /\ Free(c)
    /\ Serve
    /\ b <= Len(businesses)
    /\ t.given
    /\ businesses' = [businesses EXCEPT ![b].total_shares = t.val]
    /\ Finish(c)    \* 200 updated
    /\ UNCHANGED <<shareRequests, investments, hist>>

\* Handlers every deployment mounts: the admin router and the investor router.
OtherRoutes(c) ==
    \/ \E total \in 1..MaxShares, sv \in 1..MaxShareValue, min \in 1..2 :
          CreatePublicBusiness(c, total, sv, min)
    \/ \E inv \in Investors, b \in 1..MaxBusinesses, n \in 0..MaxShares :
          InvestorFindBusiness(c, inv, b, n)
    \/ InvestorFindExisting(c)
    \/ \E ok \in BOOLEAN : InvestorCreate(c, ok)
    \/ \E b \in 1..MaxBusinesses, t \in FormInputs(0, MaxShares),
          sv \in FormInputs(1, MaxShareValue) : UpdatePublicBusiness(c, b, t, sv)
    \/ \E b \in 1..MaxBusinesses, t \in FormInputs(0, MaxShares) : UpdateBusiness(c, b, t)

\* The request and reject handlers are the same text in both shares routers.
RequestAndReject(c) ==
    \/ \E inv \in Investors, b \in 1..MaxBusinesses, n \in 0..MaxShares :
          RequestFindBusiness(c, inv, b, n)
    \/ \E ok \in BOOLEAN : RequestCreate(c, ok)
    \/ \E r \in 1..MaxRequests, reason \in Reasons : RejectFindRequest(c, r, reason)
    \/ \E ok \in BOOLEAN : RejectSave(c, ok)

\* The current shares router.
SharesRouter(c) ==
    \/ RequestAndReject(c)
    \/ \E r \in 1..MaxRequests, a \in ApprovedInputs : ApproveFindRequest(c, r, a)
    \/ ApproveFindBusiness(c)
    \/ \E ok \in BOOLEAN : ApproveSaveRequest(c, ok)
    \/ \E ok \in BOOLEAN : ApproveSaveBusiness(c, ok)
    \/ \E ok \in BOOLEAN : ApproveCreateInvestment(c, ok)

\* The older shares router.
OldSharesRouter(c) ==
    \/ RequestAndReject(c)
    \/ \E r \in 1..MaxRequests, a \in ApprovedInputs : OldApproveFindRequest(c, r, a)
    \/ OldApproveFindBusiness(c)
    \/ \E ok \in BOOLEAN : OldApproveSaveRequest(c, ok)
    \/ \E ok \in BOOLEAN : OldApproveSaveBusiness(c, ok)

\* A server mounts one shares router at /shares: the current one ...
Next == \E c \in Calls : OtherRoutes(c) \/ SharesRouter(c)

Spec == Init /\ [][Next]_vars

\* ... or the older one.
NextOld == \E c \in Calls : OtherRoutes(c) \/ OldSharesRouter(c)

SpecOld == Init /\ [][NextOld]_vars

\* The current shares router alone, on listings nobody edits.
NextShares == \E c \in Calls :
    \/ \E total \in 1..MaxShares, sv \in 1..MaxShareValue, min \in 1..2 :
          CreatePublicBusiness(c, total, sv, min)
    \/ SharesRouter(c)

SpecShares == Init /\ [][NextShares]_vars

\* ===================================================================== claims
BusinessIds == 1..Len(businesses)
RequestIds  == 1..Len(shareRequests)
InvestmentIds == 1..Len(investments)

ApproveLabels == {"apv_business", "apv_saveRequest", "apv_saveBusiness", "apv_investment",
                  "old_business", "old_saveRequest", "old_saveBusiness"}
RequestRejectLabels == {"req_create", "inv_existing", "inv_create", "rej_save"}

\* The call c takes this step.
Acts(c) == pc'[c] # pc[c] \/ loc'[c] # loc[c]

\* Sum of the approved share counts of the approved requests 1..k against b.
RECURSIVE ApprovedSum(_, _)
ApprovedSum(b, k) ==
    IF k = 0 THEN 0
    ELSE ApprovedSum(b, k - 1)
         + (IF shareRequests[k].business_id = b /\ shareRequests[k].status = "approved"
              THEN approvedCount[k] ELSE 0)

\* C1: in every reachable state every Business has 0 <= remaining_shares <= total_shares.
C1_RemainingWithinTotal ==
    \A b \in BusinessIds :
        /\ 0 <= businesses[b].remaining_shares
        /\ businesses[b].remaining_shares <= businesses[b].total_shares

\* C2: the capacity check and the decrement of an approval are one atomic step:
\* when the approval of a request stores its decrement (the first for that
\* request), its share count fits the stored remaining_shares and
\* remaining_shares drops by exactly that count, to a value >= 0.
C2_CheckAndDecrementAtomic ==
    [][\A c \in Calls :
          (pc[c] = "apv_saveBusiness" /\ pc'[c] = "apv_investment"
             /\ loc[c].r \notin decrementedFor) =>
              /\ loc[c].n <= businesses[loc[c].b].remaining_shares
              /\ businesses'[loc[c].b].remaining_shares
                    = businesses[loc[c].b].remaining_shares - loc[c].n
              /\ businesses'[loc[c].b].remaining_shares >= 0]_vars

\* No approve call against the business b is running.
NoApprovalInFlightFor(b) == \A c \in Calls : ~(pc[c] \in ApproveLabels /\ loc[c].b = b)

\* C3: for every business with no approve call running, the approved share
\* counts of its approved ShareRequests sum to total_shares - remaining_shares.
C3_SharesAccounted ==
    \A b \in BusinessIds :
        NoApprovalInFlightFor(b) =>
            ApprovedSum(b, Len(shareRequests))
                = businesses[b].total_shares - businesses[b].remaining_shares

\* C4: once a ShareRequest is approved or rejected, no step changes its status or
\* its rejection_reason again.
C4_StatusChangesOnce ==
    [][\A r \in RequestIds :
          shareRequests[r].status # "pending" =>
              /\ shareRequests'[r].status = shareRequests[r].status
              /\ shareRequests'[r].rejection_reason = shareRequests[r].rejection_reason]_vars

\* C5: an approve call that found its ShareRequest not pending changes neither
\* the ShareRequests, nor the Businesses, nor the Investments.
C5_NonPendingApproveChangesNothing ==
    [][\A c \in Calls :
          (pc[c] \in ApproveLabels /\ loc[c].seen # "pending" /\ Acts(c)) =>
              UNCHANGED store]_vars

\* C6: an approve call whose share count exceeds the remaining_shares it found
\* changes neither the ShareRequests, nor the Businesses, nor the Investments.
C6_OverCapacityApproveChangesNothing ==
    [][\A c \in Calls :
          (pc[c] \in ApproveLabels \ {"apv_business", "old_business"}
             /\ loc[c].n > loc[c].rem /\ Acts(c)) =>
              UNCHANGED store]_vars

\* No approve call for the request r is running.
NoApprovalInFlight(r) == \A c \in Calls : ~(pc[c] \in ApproveLabels /\ loc[c].r = r)

\* C7: once its approve calls have returned, the store holds no approved
\* ShareRequest for which the decrement of remaining_shares was not stored or
\* the Investment does not exist.
C7_ApprovalAllOrNothing ==
    \A r \in RequestIds :
        (shareRequests[r].status = "approved" /\ NoApprovalInFlight(r)) =>
            /\ r \in decrementedFor
            /\ \E i \in InvestmentIds : investmentReq[i] = r

\* C8: an approval that succeeds with share count a leaves the request approved,
\* has decreased the stored remaining_shares by exactly a, and has created one
\* Investment, approved, of amount a x the request's share_value snapshot.
C8_SuccessfulApprovalEffect ==
    [][\A c \in Calls :
          /\ (pc[c] = "apv_saveBusiness" /\ pc'[c] = "apv_investment") =>
                businesses'[loc[c].b].remaining_shares
                    = businesses[loc[c].b].remaining_shares - loc[c].n
          /\ (pc[c] = "apv_investment" /\ Len(investments') > Len(investments)) =>
                /\ shareRequests'[loc[c].r].status = "approved"
                /\ investments' = Append(investments,
                        [investor_id |-> shareRequests[loc[c].r].investor_id,
                         business_id |-> shareRequests[loc[c].r].business_id,
                         amount |-> loc[c].n * shareRequests[loc[c].r].share_value,
                         status |-> "approved"])]_vars

\* C9: every approved ShareRequest whose approve calls have returned has exactly
\* one Investment created by its approval (approved, same investor and
\* business), and no such Investment belongs to a request that is still pending.
C9_OneInvestmentPerApproval ==
    /\ \A r \in RequestIds :
          (shareRequests[r].status = "approved" /\ NoApprovalInFlight(r)) =>
              /\ Cardinality({i \in InvestmentIds : investmentReq[i] = r}) = 1
              /\ \A i \in InvestmentIds : investmentReq[i] = r =>
                    /\ investments[i].status = "approved"
                    /\ investments[i].investor_id = shareRequests[r].investor_id
                    /\ investments[i].business_id = shareRequests[r].business_id
    /\ \A i \in InvestmentIds : shareRequests[investmentReq[i]].status # "pending"

\* C10: no step of a request handler or of a reject handler changes any
\* business's remaining_shares.
C10_RequestAndRejectKeepRemaining ==
    [][\A c \in Calls :
          ((pc[c] \in RequestRejectLabels \/ pc'[c] \in RequestRejectLabels) /\ Acts(c)) =>
              \A b \in BusinessIds :
                  businesses'[b].remaining_shares = businesses[b].remaining_shares]_vars

\* C10 witness: two pending requests against one listing ask for more shares
\* than it has left; nothing was reserved for either.
C10_PendingExceedRemaining ==
    \E b \in BusinessIds : \E r1, r2 \in RequestIds :
        /\ r1 # r2
        /\ shareRequests[r1].business_id = b /\ shareRequests[r2].business_id = b
        /\ shareRequests[r1].status = "pending" /\ shareRequests[r2].status = "pending"
        /\ shareRequests[r1].requested_shares + shareRequests[r2].requested_shares
              > businesses[b].remaining_shares
        /\ businesses[b].remaining_shares = businesses[b].total_shares

\* The call c stores a new ShareRequest in this step.
Creates(c) ==
    /\ pc[c] \in {"req_create", "inv_create"}
    /\ Acts(c)
    /\ Len(shareRequests') = Len(shareRequests) + 1

\* C11: in every reachable state each (investor, business) pair has at most one
\* pending ShareRequest.
C11_OnePendingPerInvestorAndBusiness ==
    \A r1, r2 \in RequestIds :
        (/\ shareRequests[r1].status = "pending" /\ shareRequests[r2].status = "pending"
         /\ shareRequests[r1].investor_id = shareRequests[r2].investor_id
         /\ shareRequests[r1].business_id = shareRequests[r2].business_id) => r1 = r2

\* C12: no request call stores a ShareRequest for more shares than the
\* remaining_shares of the business it loaded.
C12_OverCapacityRequestCreatesNothing ==
    [][\A c \in Calls : Creates(c) => loc[c].n <= loc[c].rem]_vars

\* C13: every stored ShareRequest asks for at least the
\* minimum_shares_per_request of its business.
C13_RequestsMeetMinimum ==
    \A r \in RequestIds :
        shareRequests[r].requested_shares
            >= businesses[shareRequests[r].business_id].minimum_shares_per_request

\* C14: every ShareRequest has total_amount = requested_shares x its own
\* share_value, and no step changes the share_value, requested_shares or
\* total_amount of a stored ShareRequest.
C14_TotalAmountSnapshot ==
    [][/\ \A r \in 1..Len(shareRequests') :
             shareRequests'[r].total_amount
                 = shareRequests'[r].requested_shares * shareRequests'[r].share_value
       /\ \A r \in RequestIds :
             /\ shareRequests'[r].share_value = shareRequests[r].share_value
             /\ shareRequests'[r].requested_shares = shareRequests[r].requested_shares
             /\ shareRequests'[r].total_amount = shareRequests[r].total_amount]_vars

\* C14 witness: a request approved with fewer shares than it asked for, whose
\* business has since changed its share_value.
C14_PartialApprovalAfterPriceEdit ==
    \E r \in RequestIds :
        /\ shareRequests[r].status = "approved"
        /\ approvedCount[r] > 0
        /\ approvedCount[r] < shareRequests[r].requested_shares
        /\ r \in decrementedFor
        /\ businesses[shareRequests[r].business_id].share_value # shareRequests[r].share_value

\* C15: an admin edit of total_shares from old_total > 0 to another value leaves
\* remaining_shares = floor(old_remaining x new_total / old_total).
C15_RemainingRescaledOnTotalEdit ==
    [][\A b \in BusinessIds :
          (businesses[b].total_shares > 0
             /\ businesses'[b].total_shares # businesses[b].total_shares) =>
              businesses'[b].remaining_shares
                  = (businesses[b].remaining_shares * businesses'[b].total_shares)
                        \div businesses[b].total_shares]_vars

\* ================================================================ expenses
\* The expense-route handler in c sends its response and returns.
ExpenseFinish(c) ==
    /\ epc' = [epc EXCEPT ![c] = "idle"]
    /\ eloc' = [eloc EXCEPT ![c] = NoELoc]

\* The expense-route handler in c suspends at the next await.
ExpenseGoto(c, label, l) ==
    /\ epc' = [epc EXCEPT ![c] = label]
    /\ eloc' = [eloc EXCEPT ![c] = l]

ExpenseFree(c) == epc[c] = "idle" /\ \A d \in ExpenseCalls : d < c => epc[d] # "idle"

\* The server accepts one more paid, update or toggle-active request.
ServeEdit == edits < MaxEdits /\ edits' = edits + 1

\* Any operation other than a sweep ends a run of back-to-back sweeps.
OtherOperation == lastSweep' = "none" /\ sweepBase' = << >>

\* The clock advances by one day.
Tick ==
    /\ Before(now, LastDay)
    /\ now' = Normalize([now EXCEPT !.date = @ + 1])
    /\ OtherOperation
    /\ UNCHANGED <<expenses, epc, eloc, sweep, edits, producedBy>>
    /\ UNCHANGED <<shareVars, calc>>

\* expenseSchema.pre("save"): a recursive pending expense whose due_date has
\* passed is stored as overdue.
PreSave(doc) ==
    IF doc.type = "recursive" /\ doc.status = "pending" /\ Before(doc.due_date, now)
      THEN [doc EXCEPT !.status = "overdue"]
      ELSE doc

\* Manual expenses carry one of two descriptions.
Profiles ==
    {[name |-> "rent", category |-> "rent", amount |-> 100, priority |-> "high"],
     [name |-> "power", category |-> "utilities", amount |-> 40, priority |-> "medium"]}
DueDates == {Epoch, Normalize([Epoch EXCEPT !.date = @ + 1])}
Origins == Cardinality({e \in 1..Len(expenses) : producedBy[e].via = "manual"})

\* ------------------------------------------------------ POST /expenses
\* One await: Expense.create (which runs the pre-save hook).
CreateExpense(p, type, due_date, frequency, frequency_value) ==
    /\ Len(expenses) < MaxExpenses
    /\ Origins < MaxOrigins
    /\ type = "recursive" => frequency # "none"
    /\ (type = "recursive" /\ frequency = "days") => Truthy(frequency_value)
    /\ LET status == IF type = "one_time" THEN "active" ELSE "pending"
           doc == [NoExpense EXCEPT
                     !.name = p.name, !.category = p.category, !.amount = p.amount,
                     !.priority = p.priority, !.type = type, !.due_date = due_date,
                     !.status = status,
                     !.frequency = IF type = "recursive" THEN frequency ELSE "none",
                     !.frequency_value = IF type = "recursive" /\ frequency = "days"
                                           THEN frequency_value ELSE Undefined,
                     !.is_active = TRUE]
       IN /\ expenses' = Append(expenses, PreSave(doc))
          /\ producedBy' = Append(producedBy, [from |-> 0, via |-> "manual"])
    /\ OtherOperation
    /\ UNCHANGED <<now, epc, eloc, sweep, edits>>
    /\ UNCHANGED <<shareVars, calc>>

\* parent_id: expense._id -- the successor points at the record that triggered it.
OriginOfTriggering(expense, id) == id

\* parent_id: expense.parent_id || expense._id
OriginOf(expense, id) == IF expense.parent_id # 0 THEN expense.parent_id ELSE id

\* The document the three successor-creating paths hand to Expense.create.
Successor(expense, id, nextDueDate) ==
    [NoExpense EXCEPT
       !.name = expense.name, !.category = expense.category, !.amount = expense.amount,
       !.type = "recursive", !.priority = expense.priority, !.due_date = nextDueDate,
       !.payment_method = expense.payment_method, !.status = "pending",
       !.frequency = expense.frequency, !.frequency_value = expense.frequency_value,
       !.parent_id = OriginOf(expense, id), !.is_active = TRUE]

\* Expense.create of a successor: the pre-save hook runs on it.
CreateSuccessor(doc, from, via) ==
    /\ Len(expenses) < MaxExpenses
    /\ expenses' = Append(expenses, PreSave(doc))
    /\ producedBy' = Append(producedBy, [from |-> from, via |-> via])

\* ------------------------------------------- PATCH /expenses/:expenseId/paid
PaidFind(c, e, paid_date, payment_method) ==
    /\ ExpenseFree(c)
    /\ ServeEdit
    /\ OtherOperation
    /\ UNCHANGED <<expenses, now, sweep, producedBy>>
    /\ UNCHANGED <<shareVars, calc>>
    /\ IF payment_method = "none"
         THEN ExpenseFinish(c)    \* 400 payment method required
       ELSE IF e > Len(expenses)
         THEN ExpenseFinish(c)    \* 404 notFound
       ELSE LET l == [NoELoc EXCEPT !.op = "paid", !.e = e, !.expense = expenses[e],
                                    !.paid_date = IF paid_date # NoDate THEN paid_date ELSE now,
                                    !.payment_method = payment_method]
            IN IF expenses[e].type = "recursive" /\ expenses[e].is_active
                 THEN ExpenseGoto(c, "paid_create", l)
                 ELSE ExpenseGoto(c, "paid_update", l)

PaidCreate(c, ok) ==
    /\ epc[c] = "paid_create"
    /\ OtherOperation
    /\ UNCHANGED <<now, sweep, edits>>
    /\ UNCHANGED <<shareVars, calc>>
    /\ LET l == eloc[c] IN
       IF ok
         THEN /\ CreateSuccessor(
                    Successor(l.expense, l.e,
                              calculateNextDueDate(l.expense.due_date, l.expense.frequency,
                                                   l.expense.frequency_value)),
                    l.e, "paid")
              /\ ExpenseGoto(c, "paid_update", l)
         ELSE /\ UNCHANGED <<expenses, producedBy>>
              /\ ExpenseFinish(c)    \* 500 error

\* Expense.findByIdAndUpdate(expenseId, updateData): no save hook runs.
PaidUpdate(c, ok) ==
    /\ epc[c] = "paid_update"
    /\ OtherOperation
    /\ UNCHANGED <<now, sweep, edits, producedBy>>
    /\ UNCHANGED <<shareVars, calc>>
    /\ LET l == eloc[c] IN
       /\ expenses' = IF ok
                        THEN [expenses EXCEPT ![l.e].status = "paid",
                                              ![l.e].paid_date = l.paid_date,
                                              ![l.e].payment_method = l.payment_method]
                        ELSE expenses
       /\ ExpenseFinish(c)    \* 200 updated / 500 error

\* ------------------------------------------------ PUT /expenses/:expenseId
\* The request bodies tried: each sets some of status, is_active, due_date,
\* frequency and frequency_value.
UpdateBodies ==
    {[NoBody EXCEPT !.status = "paid"],
     [NoBody EXCEPT !.status = "pending"],
     [NoBody EXCEPT !.is_active = "false"],
     [NoBody EXCEPT !.status = "paid", !.is_active = "true"],
     [NoBody EXCEPT !.status = "paid", !.frequency = "days", !.frequency_value = Num(2)]}

\* updateData, applied to a document.
ApplyUpdate(doc, body) ==
    [doc EXCEPT
       !.status = IF body.status # "undefined" THEN body.status ELSE @,
       !.is_active = IF body.is_active # "undefined" THEN body.is_active = "true" ELSE @,
       !.due_date = IF body.due_date # NoDate THEN body.due_date ELSE @,
       !.frequency = IF body.frequency # "undefined" THEN body.frequency ELSE @,
       !.frequency_value = IF Truthy(body.frequency_value) THEN body.frequency_value ELSE @]

UpdateFind(c, e, body) ==
    /\ ExpenseFree(c)
    /\ ServeEdit
    /\ OtherOperation
    /\ UNCHANGED <<expenses, now, sweep, producedBy>>
    /\ UNCHANGED <<shareVars, calc>>
    /\ IF e > Len(expenses)
         THEN ExpenseFinish(c)    \* 404 notFound
       ELSE LET l == [NoELoc EXCEPT !.op = "update", !.e = e, !.expense = expenses[e],
                                    !.body = body]
            IN IF body.status = "paid" /\ expenses[e].type = "recursive"
                    /\ expenses[e].is_active
                 THEN ExpenseGoto(c, "update_create", l)
                 ELSE ExpenseGoto(c, "update_save", l)

UpdateCreate(c, ok) ==
    /\ epc[c] = "update_create"
    /\ OtherOperation
    /\ UNCHANGED <<now, sweep, edits>>
    /\ UNCHANGED <<shareVars, calc>>
    /\ LET l == eloc[c]
           nextDueDate ==
             calculateNextDueDate(
               IF l.body.due_date # NoDate THEN l.body.due_date ELSE l.expense.due_date,
               IF l.body.frequency # "undefined" THEN l.body.frequency ELSE l.expense.frequency,
               IF Truthy(l.body.frequency_value) THEN l.body.frequency_value
                                                 ELSE l.expense.frequency_value)
       IN IF ok
            THEN /\ CreateSuccessor(Successor(l.expense, l.e, nextDueDate), l.e, "update")
                 /\ ExpenseGoto(c, "update_save", l)
            ELSE /\ UNCHANGED <<expenses, producedBy>>
                 /\ ExpenseFinish(c)    \* 500 error

\* Expense.findByIdAndUpdate(expenseId, updateData): no save hook runs.
UpdateSave(c, ok) ==
    /\ epc[c] = "update_save"
    /\ OtherOperation
    /\ UNCHANGED <<now, sweep, edits, producedBy>>
    /\ UNCHANGED <<shareVars, calc>>
    /\ LET l == eloc[c] IN
       /\ expenses' = IF ok
                        THEN [expenses EXCEPT ![l.e] = ApplyUpdate(@, l.body)]
                        ELSE expenses
       /\ ExpenseFinish(c)    \* 200 updated / 500 error

\* ---------------------------------- PATCH /expenses/:expenseId/toggle-active
ToggleFind(c, e) ==
    /\ ExpenseFree(c)
    /\ ServeEdit
    /\ OtherOperation
    /\ UNCHANGED <<expenses, now, sweep, producedBy>>
    /\ UNCHANGED <<shareVars, calc>>
    /\ IF e > Len(expenses)
         THEN ExpenseFinish(c)    \* 404 notFound
       ELSE IF expenses[e].type # "recursive"
         THEN ExpenseFinish(c)    \* 400 only recursive
       ELSE ExpenseGoto(c, "toggle_save",
                        [NoELoc EXCEPT !.op = "toggle", !.e = e, !.expense = expenses[e]])

\* expense.is_active = !expense.is_active; expense.save(): the pre-save hook runs
\* on the loaded document, and save() writes the paths that changed.
ToggleSave(c, ok) ==
    /\ epc[c] = "toggle_save"
    /\ OtherOperation
    /\ UNCHANGED <<now, sweep, edits, producedBy>>
    /\ UNCHANGED <<shareVars, calc>>
    /\ LET l == eloc[c]
           saved == PreSave([l.expense EXCEPT !.is_active = ~l.expense.is_active])
       IN /\ expenses' =
               IF ok
                 THEN [expenses EXCEPT
                         ![l.e].is_active = saved.is_active,
                         ![l.e].status = IF saved.status # l.expense.status
                                           THEN saved.status ELSE @]
                 ELSE expenses
          /\ ExpenseFinish(c)    \* 200 toggled / 500 error

\* ------------------------------------------------ processRecursiveExpenses
\* Expense.find({type: recursive, is_active: true, due_date <= now,
\*               status in [pending, overdue]})
IsDueRecursive(doc, t) ==
    /\ doc.type = "recursive"
    /\ doc.is_active
    /\ ~Before(t, doc.due_date)
    /\ doc.status \in {"pending", "overdue"}

RECURSIVE DueRecursiveExpenses(_, _)
DueRecursiveExpenses(k, t) ==
    IF k = 0 THEN << >>
    ELSE LET rest == DueRecursiveExpenses(k - 1, t)
         IN IF IsDueRecursive(expenses[k], t)
              THEN Append(rest, [id |-> k, expense |-> expenses[k]])
              ELSE rest

\* Expense.findOne({parent_id: origin, due_date > expense.due_date, status: pending})
NextOccurrence(expense, id) ==
    \E k \in 1..Len(expenses) :
        /\ expenses[k].parent_id = OriginOf(expense, id)
        /\ Before(expense.due_date, expenses[k].due_date)
        /\ expenses[k].status = "pending"

\* lastSweep follows the sweeps that run with no other operation in between:
\* "first" while one runs, "done" when it has ended without an error, "second"
\* while the next one runs, "retry" while the one after a failed sweep runs,
\* "overlap" from the moment a second run starts while the first is still
\* running, "failed" when the last run ended in its catch block.
Overlaps(s) == \E o \in Sweeps \ {s} : sweep[o].pc # "idle"
SweepStarted(s) ==
    IF Overlaps(s)
      THEN (IF lastSweep \in {"first", "second", "retry"} THEN "overlap" ELSE "none")
    ELSE IF lastSweep = "done" THEN "second"
    ELSE IF lastSweep = "failed" THEN "retry"
    ELSE "first"
SweepEnded(s) ==
    IF lastSweep \in {"first", "second", "retry"} THEN "done"
    ELSE IF lastSweep = "overlap" THEN (IF Overlaps(s) THEN "overlap" ELSE "done")
    ELSE "none"

\* The run s returns without an error.
SweepReturns(s) ==
    /\ sweep' = [sweep EXCEPT ![s] = NoSweep]
    /\ lastSweep' = SweepEnded(s)
    /\ sweepBase' = IF SweepEnded(s) = "overlap" THEN sweepBase ELSE << >>

\* The sweep has handled its current candidate: the loop moves on, or returns.
NextCandidate(s) ==
    LET rest == Tail(sweep[s].todo)
    IN IF rest = << >>
         THEN SweepReturns(s)
         ELSE /\ sweep' = [sweep EXCEPT ![s].todo = rest, ![s].pc = "findOne"]
              /\ UNCHANGED <<lastSweep, sweepBase>>

\* if (expense.due_date < now && expense.status === "pending")
NeedsOverdue(s) ==
    LET cur == Head(sweep[s].todo)
    IN Before(cur.expense.due_date, sweep[s].now) /\ cur.expense.status = "pending"

\* After the successor step of a candidate: the overdue update, or the next one.
AfterSuccessor(s) ==
    IF NeedsOverdue(s)
      THEN /\ sweep' = [sweep EXCEPT ![s].pc = "save"]
           /\ UNCHANGED <<lastSweep, sweepBase>>
      ELSE NextCandidate(s)

\* No catch block: the error leaves processRecursiveExpenses as an unhandled
\* rejection, the process ends and with it the timer.
SweepFailedStoppingTimer(s) ==
    /\ sweep' = [o \in Sweeps |-> [NoSweep EXCEPT !.pc = "stopped"]]
    /\ lastSweep' = "failed"
    /\ sweepBase' = << >>

\* The catch block: the error is logged and the run is over.
SweepFailed(s) ==
    /\ sweep' = [sweep EXCEPT ![s] = NoSweep]
    /\ lastSweep' = "failed"
    /\ sweepBase' = << >>

\* The timer (or startServer) calls processRecursiveExpenses: the run takes the
\* first free slot, reads the clock and issues its Expense.find.
StartSweep(s) ==
    /\ sweep[s].pc = "idle"
    /\ \A o \in Sweeps : o < s => sweep[o].pc # "idle"
    /\ sweep' = [sweep EXCEPT ![s] = [pc |-> "find", now |-> now, todo |-> << >>]]
    /\ lastSweep' = SweepStarted(s)
    /\ sweepBase' = IF SweepStarted(s) = "overlap" THEN sweepBase
                    ELSE IF SweepStarted(s) = "none" THEN << >>
                    ELSE expenses
    /\ UNCHANGED <<expenses, now, epc, eloc, edits, producedBy>>
    /\ UNCHANGED <<shareVars, calc>>

\* await Expense.find(...) returns the candidates, or throws.
ProcessFind(s, ok) ==
    /\ sweep[s].pc = "find"
    /\ UNCHANGED <<expenses, now, epc, eloc, edits, producedBy>>
    /\ UNCHANGED <<shareVars, calc>>
    /\ LET due == DueRecursiveExpenses(Len(expenses), sweep[s].now) IN
       IF ~ok
         THEN SweepFailed(s)
       ELSE IF due = << >>
         THEN SweepReturns(s)
         ELSE /\ sweep' = [sweep EXCEPT ![s].pc = "findOne", ![s].todo = due]
              /\ UNCHANGED <<lastSweep, sweepBase>>

ProcessFindOne(s, ok) ==
    /\ sweep[s].pc = "findOne"
    /\ UNCHANGED <<expenses, now, epc, eloc, edits, producedBy>>
    /\ UNCHANGED <<shareVars, calc>>
    /\ LET cur == Head(sweep[s].todo) IN
       IF ~ok
         THEN SweepFailed(s)
       ELSE IF ~NextOccurrence(cur.expense, cur.id) /\ cur.expense.frequency # "none"
         THEN /\ sweep' = [sweep EXCEPT ![s].pc = "create"]
              /\ UNCHANGED <<lastSweep, sweepBase>>
         ELSE AfterSuccessor(s)

ProcessCreate(s, ok) ==
    /\ sweep[s].pc = "create"
    /\ UNCHANGED <<now, epc, eloc, edits>>
    /\ UNCHANGED <<shareVars, calc>>
    /\ LET cur == Head(sweep[s].todo) IN
       IF ok
         THEN /\ CreateSuccessor(
                    Successor(cur.expense, cur.id,
                              calculateNextDueDateScheduler(cur.expense.due_date,
                                                            cur.expense.frequency,
                                                            cur.expense.frequency_value)),
                    cur.id, "sweep")
              /\ AfterSuccessor(s)
         ELSE /\ UNCHANGED <<expenses, producedBy>>
              /\ SweepFailed(s)

\* expense.status = "overdue"; expense.save()
ProcessSave(s, ok) ==
    /\ sweep[s].pc = "save"
    /\ UNCHANGED <<now, epc, eloc, edits, producedBy>>
    /\ UNCHANGED <<shareVars, calc>>
    /\ LET cur == Head(sweep[s].todo) IN
       IF ok
         THEN /\ expenses' = [expenses EXCEPT ![cur.id].status = "overdue"]
              /\ NextCandidate(s)
         ELSE /\ UNCHANGED expenses
              /\ SweepFailed(s)

\* The expense router and the scheduler.
ExpenseRoutes(c) ==
    \/ \E e \in 1..MaxExpenses, paid_date \in {NoDate, Epoch}, payment_method \in {"none", "cash"} :
          PaidFind(c, e, paid_date, payment_method)
    \/ \E ok \in BOOLEAN : PaidCreate(c, ok)
    \/ \E ok \in BOOLEAN : PaidUpdate(c, ok)
    \/ \E e \in 1..MaxExpenses, body \in UpdateBodies : UpdateFind(c, e, body)
    \/ \E ok \in BOOLEAN : UpdateCreate(c, ok)
    \/ \E ok \in BOOLEAN : UpdateSave(c, ok)
    \/ \E e \in 1..MaxExpenses : ToggleFind(c, e)
    \/ \E ok \in BOOLEAN : ToggleSave(c, ok)

Scheduler(s) ==
    \/ StartSweep(s)
    \/ \E ok \in BOOLEAN : ProcessFind(s, ok)
    \/ \E ok \in BOOLEAN : ProcessFindOne(s, ok)
    \/ \E ok \in BOOLEAN : ProcessCreate(s, ok)
    \/ \E ok \in BOOLEAN : ProcessSave(s, ok)

NextExpenses ==
    \/ Tick
    \/ \E p \in Profiles, type \in {"one_time", "recursive"}, due_date \in DueDates,
          frequency \in {"none", "days", "month"}, frequency_value \in {Undefined, Num(1)} :
          CreateExpense(p, type, due_date, frequency, frequency_value)
    \/ \E c \in ExpenseCalls : ExpenseRoutes(c)
    \/ Scheduler(1)

SpecExpenses == Init /\ [][NextExpenses]_vars

\* ------------------------------------- the scheduler, with overlapping runs
\* POST /expenses and the clock, and processRecursiveExpenses in every slot: a
\* run may start while the previous one is still at one of its awaits.  The
\* frequency_value given may be negative.
NextScheduler ==
    \/ Tick
    \/ \E p \in Profiles, type \in {"one_time", "recursive"}, due_date \in DueDates,
          frequency \in {"none", "days", "month"},
          frequency_value \in {Undefined, Num(1), Num(-1)} :
          CreateExpense(p, type, due_date, frequency, frequency_value)
    \/ \E s \in Sweeps : Scheduler(s)

SpecScheduler == Init /\ [][NextScheduler]_vars

\* --------------------------------------------------- the timer, run by run
\* setInterval(processRecursiveExpenses, 60 * 60 * 1000) and the call in
\* startServer: the runs of the sweep one after the other.  The timer keeps
\* firing, and every store operation a run awaits returns or throws.
SweepStep(s) ==
    \E ok \in BOOLEAN :
        \/ ProcessFind(s, ok)
        \/ ProcessFindOne(s, ok)
        \/ ProcessCreate(s, ok)
        \/ ProcessSave(s, ok)

NextTimer ==
    \/ Tick
    \/ \E p \in Profiles, type \in {"one_time", "recursive"}, due_date \in DueDates,
          frequency \in {"none", "days", "month"}, frequency_value \in {Undefined, Num(1)} :
          CreateExpense(p, type, due_date, frequency, frequency_value)
    \/ Scheduler(1)

SpecTimer ==
    Init /\ [][NextTimer]_vars /\ WF_vars(StartSweep(1)) /\ WF_vars(SweepStep(1))

\* ------------------------------------------------ one sweep, run by itself
\* The candidates Expense.find returns from a collection, in _id order.
RECURSIVE Candidates(_, _, _)
Candidates(collection, k, t) ==
    IF k = 0 THEN << >>
    ELSE LET rest == Candidates(collection, k - 1, t)
         IN IF IsDueRecursive(collection[k], t)
              THEN Append(rest, [id |-> k, expense |-> collection[k]])
              ELSE rest

\* The collection one run of processRecursiveExpenses leaves when nothing else
\* runs and no store operation fails: the loop over the candidates todo, started
\* on the given collection at time t (the clock stands still during the run).
RECURSIVE RunSweep(_, _, _)
RunSweep(collection, todo, t) ==
    IF todo = << >> THEN collection
    ELSE LET cur == Head(todo)
             nextOccurrence ==
                 \E k \in 1..Len(collection) :
                     /\ collection[k].parent_id = OriginOf(cur.expense, cur.id)
                     /\ Before(cur.expense.due_date, collection[k].due_date)
                     /\ collection[k].status = "pending"
             nextDueDate ==
                 calculateNextDueDateScheduler(cur.expense.due_date, cur.expense.frequency,
                                               cur.expense.frequency_value)
             created ==
                 IF ~nextOccurrence /\ cur.expense.frequency # "none"
                   THEN Append(collection, PreSave(Successor(cur.expense, cur.id, nextDueDate)))
                   ELSE collection
             saved ==
                 IF Before(cur.expense.due_date, t) /\ cur.expense.status = "pending"
                   THEN [created EXCEPT ![cur.id].status = "overdue"]
                   ELSE created
         IN RunSweep(saved, Tail(todo), t)

\* ------------------------------------------- calculateNextDueDate, by itself
\* The arguments tried: month ends, a leap day, a year end and mid-month days;
\* the five frequencies, one the switch does not know and none at all; a
\* frequencyValue that is absent, zero, negative, one, a week, or over a month.
CalcDates ==
    {Date(2024, 0, 10), Date(2024, 0, 31), Date(2024, 1, 29), Date(2023, 1, 28),
     Date(2024, 7, 31), Date(2024, 10, 30), Date(2024, 11, 31), Date(2025, 0, 2)}
CalcFrequencies == {"days", "month", "quarter", "half", "year", "weekly", "none"}
CalcValues == {Undefined, Num(0), Num(-3), Num(1), Num(7), Num(40)}

InitDates ==
    /\ businesses = << >>
    /\ shareRequests = << >>
    /\ investments = << >>
    /\ pc = [c \in Calls |-> "idle"]
    /\ loc = [c \in Calls |-> NoLoc]
    /\ served = 0
    /\ approvedCount = [r \in 1..MaxRequests |-> 0]
    /\ investmentReq = << >>
    /\ decrementedFor = {}
    /\ expenses = << >>
    /\ now = Epoch
    /\ epc = [c \in ExpenseCalls |-> "idle"]
    /\ eloc = [c \in ExpenseCalls |-> NoELoc]
    /\ sweep = [s \in Sweeps |-> NoSweep]
    /\ edits = 0
    /\ producedBy = << >>
    /\ lastSweep = "none"
    /\ sweepBase = << >>
    /\ \E currentDueDate \in CalcDates, frequency \in CalcFrequencies,
          frequencyValue \in CalcValues :
          calc = [NoCalc EXCEPT !.currentDueDate = currentDueDate,
                                !.frequency = frequency,
                                !.frequencyValue = frequencyValue]

\* The expense routes' copy is called with the arguments.
CallRoutes ==
    /\ calc.routes = NoDate
    /\ calc' = [calc EXCEPT !.routes = calculateNextDueDate(calc.currentDueDate,
                                                            calc.frequency,
                                                            calc.frequencyValue)]
    /\ UNCHANGED <<shareVars, expenseVars>>

\* The scheduler's copy is called with the arguments.
CallScheduler ==
    /\ calc.scheduler = NoDate
    /\ calc' = [calc EXCEPT !.scheduler = calculateNextDueDateScheduler(calc.currentDueDate,
                                                                        calc.frequency,
                                                                        calc.frequencyValue)]
    /\ UNCHANGED <<shareVars, expenseVars>>

NextDates == CallRoutes \/ CallScheduler

SpecDates == InitDates /\ [][NextDates]_vars

\* ------------------------------------------------------- claims on expenses
ExpenseIds == 1..Len(expenses)

\* The origin of the recurrence chain the expense e belongs to.
ChainOf(e) == OriginOf(expenses[e], e)

\* The expense a step stores, and the expense it was created from.
Created == Len(expenses') = Len(expenses) + 1
CreatedFrom(e) == Created /\ producedBy'[Len(expenses')].from = e

\* C16: every recurrence chain has at most one pending expense whose due_date
\* is later than the due_date of the expense that produced it.
C16_OnePendingSuccessorPerChain ==
    \A o \in ExpenseIds :
        Cardinality({e \in ExpenseIds :
                        /\ ChainOf(e) = o
                        /\ expenses[e].status = "pending"
                        /\ producedBy[e].from # 0
                        /\ Before(expenses[producedBy[e].from].due_date,
                                  expenses[e].due_date)}) <= 1

\* C17: a sweep that starts right after a sweep has ended, with no operation
\* and no clock tick in between, creates no expense and changes no status.
C17_SweepIdempotent ==
    [][(lastSweep = "second" /\ lastSweep' \in {"second", "done"}) =>
          expenses' = expenses]_vars

\* C18: for every recursive expense e, at most one expense of its chain has the
\* due_date that follows e's.
C18_OneExpensePerPeriod ==
    \A e \in ExpenseIds :
        expenses[e].type = "recursive" =>
            Cardinality({x \in ExpenseIds :
                            /\ ChainOf(x) = ChainOf(e)
                            /\ x # e
                            /\ expenses[x].due_date
                                  = calculateNextDueDate(expenses[e].due_date,
                                                         expenses[e].frequency,
                                                         expenses[e].frequency_value)}) <= 1

\* C19: marking an active recursive expense e paid stores one successor: due one
\* period after e, pending, with e's name, category, amount, priority and
\* frequency and e's origin as parent_id; then e is paid, with the paid_date
\* given (else the time of the call) and the payment_method given.
C19_MarkPaidCreatesPendingSuccessor ==
    [][\A c \in ExpenseCalls :
          /\ (epc[c] = "paid_create" /\ epc'[c] = "paid_update") =>
                /\ Created
                /\ LET e == expenses[eloc[c].e]
                       n == expenses'[Len(expenses')]
                   IN /\ n.due_date = calculateNextDueDate(e.due_date, e.frequency,
                                                           e.frequency_value)
                      /\ n.status = "pending"
                      /\ n.name = e.name /\ n.category = e.category
                      /\ n.amount = e.amount /\ n.priority = e.priority
                      /\ n.frequency = e.frequency
                      /\ n.parent_id = OriginOf(e, eloc[c].e)
          /\ (epc[c] = "paid_update" /\ expenses' # expenses) =>
                expenses' = [expenses EXCEPT
                               ![eloc[c].e].status = "paid",
                               ![eloc[c].e].paid_date = eloc[c].paid_date,
                               ![eloc[c].e].payment_method = eloc[c].payment_method]]_vars

\* C20: no step creates a successor from an expense whose stored is_active is
\* false.
C20_InactiveCreatesNoSuccessor ==
    [][\A e \in ExpenseIds : CreatedFrom(e) => expenses[e].is_active]_vars

IsActiveSet(doc) == doc.is_active \in BOOLEAN

\* C23: a one_time expense has no frequency, no parent_id and no is_active, in
\* every state; POST /expenses stores a one_time expense with status active and
\* a recursive one with status pending and is_active true.
C23_OneTimeHasNoRecurrenceFields ==
    [][/\ \A e \in 1..Len(expenses') :
             expenses'[e].type = "one_time" =>
                 /\ expenses'[e].frequency = "none"
                 /\ expenses'[e].parent_id = 0
                 /\ ~IsActiveSet(expenses'[e])
       /\ (Created /\ producedBy'[Len(expenses')].via = "manual") =>
             LET n == expenses'[Len(expenses')]
             IN /\ n.type = "one_time" => n.status = "active"
                /\ n.type = "recursive" => (n.status = "pending" /\ n.is_active = TRUE)]_vars

\* The run s returns without an error, and no other operation has run since it started.
ReturnsUndisturbed(s) ==
    /\ sweep[s].pc # "idle" /\ sweep'[s].pc = "idle"
    /\ lastSweep \in {"first", "second", "retry"} /\ lastSweep' = "done"

\* C22: when a sweep returns without an error, every expense that was pending
\* with due_date < now when the sweep started is overdue, and every expense that
\* then had another status, or a due_date >= now, has the status it had.
C22_SweepFlipsPastDuePending ==
    [][\A s \in Sweeps :
          ReturnsUndisturbed(s) =>
              \A e \in 1..Len(sweepBase) :
                  IF sweepBase[e].status = "pending"
                       /\ Before(sweepBase[e].due_date, sweep[s].now)
                    THEN expenses'[e].status = "overdue"
                    ELSE expenses'[e].status = sweepBase[e].status]_vars

\* A pending expense of e's chain with a later due_date than e is stored.
LaterPending(e) ==
    \E k \in ExpenseIds :
        /\ expenses[k].parent_id = ChainOf(e)
        /\ Before(expenses[e].due_date, expenses[k].due_date)
        /\ expenses[k].status = "pending"

\* C25: for its current candidate e, a sweep goes on to create a successor
\* exactly when no pending expense of e's chain with a later due_date is stored
\* and e has a frequency; what it creates is one expense, due one period after
\* e, pending, with e's origin as parent_id.
C25_SweepSuccessor ==
    [][\A s \in Sweeps :
          LET e == Head(sweep[s].todo).id IN
          /\ (sweep[s].pc = "findOne" /\ sweep'[s] # sweep[s] /\ lastSweep' # "failed") =>
                (sweep'[s].pc = "create"
                    <=> (~LaterPending(e) /\ expenses[e].frequency # "none"))
          /\ (sweep[s].pc = "create" /\ sweep'[s] # sweep[s] /\ expenses' # expenses) =>
                /\ Len(expenses') = Len(expenses) + 1
                /\ ~LaterPending(e)
                /\ LET n == expenses'[Len(expenses')]
                   IN /\ n.due_date = calculateNextDueDateScheduler(
                                          expenses[e].due_date, expenses[e].frequency,
                                          expenses[e].frequency_value)
                      /\ n.status = "pending"
                      /\ n.parent_id = ChainOf(e)]_vars

\* The orders in which a list of candidates can be processed.
Orders(todo) ==
    {[i \in 1..Len(todo) |-> todo[f[i]]] :
        f \in {g \in [1..Len(todo) -> 1..Len(todo)] :
                  \A i, j \in 1..Len(todo) : g[i] = g[j] => i = j}}

\* Two collections hold the same documents, each as many times.
SameExpenses(a, b) ==
    /\ Len(a) = Len(b)
    /\ \A i \in 1..Len(a) :
          Cardinality({j \in 1..Len(a) : a[j] = a[i]})
              = Cardinality({j \in 1..Len(b) : b[j] = a[i]})

\* C27: whatever the stored expenses and the time, a sweep that processes its
\* candidates in one order leaves the same expenses as a sweep that processes
\* them in any other order.
C27_SweepOrderIndependent ==
    LET due == Candidates(expenses, Len(expenses), now) IN
    \A p, q \in Orders(due) :
        SameExpenses(RunSweep(expenses, p, now), RunSweep(expenses, q, now))

\* C26: when two runs of the sweep have overlapped, with no other operation
\* and no error from the moment the first started until both have returned,
\* no candidate has got more than one successor from them, and the collection
\* is the one a single sweep leaves (for some order of its candidates).
C26_OverlappingSweepsAsOne ==
    [][(lastSweep = "overlap" /\ lastSweep' = "done") =>
          /\ \A e \in 1..Len(sweepBase) :
                Cardinality({x \in (Len(sweepBase) + 1)..Len(expenses') :
                                producedBy'[x].from = e}) <= 1
          /\ \E p \in Orders(Candidates(sweepBase, Len(sweepBase), now)) :
                SameExpenses(expenses', RunSweep(sweepBase, p, now))]_vars

\* C30: every successor that is created has a due_date later than the due_date
\* of the expense it was created from.
C30_SuccessorDueLater ==
    [][\A e \in ExpenseIds :
          CreatedFrom(e) =>
              Before(expenses[e].due_date, expenses'[Len(expenses')].due_date)]_vars

\* C24: a run of the sweep starts again and again for as long as the process
\* lives, and after every run that failed at a store operation another run
\* starts.
C24_SweepStartsAgain ==
    /\ []<>(sweep[1].pc = "find")
    /\ [](lastSweep = "failed" => <>(sweep[1].pc = "find"))

\* C24: a run has failed and the next run has started, with nothing in between.
C24_StartedAfterFailure == lastSweep = "retry" /\ sweep[1].pc = "find"

\* The day count of a calendar date, from 1 January 2020.
RECURSIVE DaysBeforeYear(_)
DaysBeforeYear(y) ==
    IF y <= 2020 THEN 0
    ELSE DaysBeforeYear(y - 1) + (IF IsLeapYear(y - 1) THEN 366 ELSE 365)

RECURSIVE DaysBeforeMonth(_, _)
DaysBeforeMonth(y, m) ==
    IF m = 0 THEN 0 ELSE DaysBeforeMonth(y, m - 1) + DaysInMonth(y, m - 1)

DayNumber(d) == DaysBeforeYear(d.year) + DaysBeforeMonth(d.year, d.month) + d.date

IsCalendarDate(d) ==
    d.month \in 0..11 /\ d.date >= 1 /\ d.date <= DaysInMonth(d.year, d.month)

\* The day count k calendar months after d, with the day of the month rolling
\* over into the following month when the target month is shorter.
MonthsLater(d, k) ==
    LET m == d.year * 12 + d.month + k
    IN DayNumber(Date(m \div 12, m % 12, 1)) + d.date - 1

\* The day count the advance rule gives for the call's arguments, with `days`
\* days for frequency = days.
Advanced(days) ==
    CASE calc.frequency = "days"    -> DayNumber(calc.currentDueDate) + days
      [] calc.frequency = "month"   -> MonthsLater(calc.currentDueDate, 1)
      [] calc.frequency = "quarter" -> MonthsLater(calc.currentDueDate, 3)
      [] calc.frequency = "half"    -> MonthsLater(calc.currentDueDate, 6)
      [] calc.frequency = "year"    -> MonthsLater(calc.currentDueDate, 12)
      [] OTHER                      -> MonthsLater(calc.currentDueDate, 1)

\* What both copies returned is the calendar date with the day count n.
BothReturn(n) ==
    /\ calc.routes # NoDate =>
          (IsCalendarDate(calc.routes) /\ DayNumber(calc.routes) = n)
    /\ calc.scheduler # NoDate =>
          (IsCalendarDate(calc.scheduler) /\ DayNumber(calc.scheduler) = n)
    /\ (calc.routes # NoDate /\ calc.scheduler # NoDate) => calc.routes = calc.scheduler

\* C28 (as stated): calculateNextDueDate returns the date advanced by
\* frequencyValue days for days (by 1 day when frequencyValue is unset), by 1, 3
\* and 6 calendar months for month, quarter and half, by 1 year for year and by
\* 1 calendar month for any other frequency; both copies return the same date.
C28_NextDueDateAsStated ==
    BothReturn(Advanced(IF calc.frequencyValue.given THEN calc.frequencyValue.val ELSE 1))

\* C28 (amended): the same, with 1 day for days when frequencyValue is unset or 0.
C28_NextDueDate ==
    BothReturn(Advanced(IF calc.frequencyValue.given /\ calc.frequencyValue.val # 0
                          THEN calc.frequencyValue.val ELSE 1))

\* C28: both copies have been called for days with a frequencyValue of 0 and
\* have returned the day after.
C28_BothCopiesCalled ==
    /\ calc.routes # NoDate /\ calc.scheduler # NoDate
    /\ calc.frequency = "days" /\ calc.frequencyValue = Num(0)
    /\ DayNumber(calc.routes) = DayNumber(calc.currentDueDate) + 1

\* C29: every approve call that stores a business subtracts from its
\* remaining_shares a count between 1 and the request's requested_shares, and the
\* stored remaining_shares is no larger than the one it replaces.
C29_ApproveNeverAddsShares ==
    [][\A c \in Calls :
          (pc[c] \in {"apv_saveBusiness", "old_saveBusiness"} /\ Acts(c)
             /\ businesses' # businesses) =>
              /\ loc[c].n >= 1
              /\ loc[c].n <= shareRequests[loc[c].r].requested_shares
              /\ businesses'[loc[c].b].remaining_shares
                    <= businesses[loc[c].b].remaining_shares]_vars
====
